---- MODULE Spec2Model ----
(***************************************************************************)
(* KeLinkBot v3.2 (src/bot.py): the link-sharing policy of a Telegram      *)
(* group.  The state is the Redis store, the chat and the handler tasks.   *)
(*                                                                         *)
(* Every await of a handler is one step: an operator that maps the world   *)
(* (store, chat, the task's locals) to the world after the call.  A        *)
(* handler that runs alone is the composition of its steps (Run).          *)
(*                                                                         *)
(* Time is counted in ticks of six hours: TTL_12H (43 200 s) is 2 ticks    *)
(* and a day is 4 ticks.  A key written with a time to live of n ticks at  *)
(* tick t is gone from tick t + n on.  A handler runs within one tick.     *)
(***************************************************************************)
EXTENDS Integers, Sequences, FiniteSets, TLC

\* ---- bounds of the model ------------------------------------------------
MaxTime  == 4          \* the clock runs from tick 0 to tick MaxTime
MaxWrites == 4         \* at most MaxWrites updates that write to the store:
                       \* reposts, reactions and replies

\* ---- program constants ---------------------------------------------------
TTL_12H  == 2          \* 12 hours, in ticks of 6 hours
DayTicks == 4          \* timedelta(days=1), in ticks of 6 hours
Quota    == 3          \* "daily_count(uid) >= 3"

Users     == {1, 2}    \* Telegram user ids
Slots     == {1, 2}    \* the tasks that can be in flight at a time: two
                       \* updates handled concurrently, two instances starting
TzOffsets == {0, 1}    \* host time zone: UTC, or UTC + 6 h

None     == 0          \* Python's None, for a user id or a missing key
NoTTL    == -1         \* a key that has no time to live
PlainMsg == 0          \* a message of the chat that is not a repost
NoReply  == -1         \* message.reply_to_message is None
NoTime   == -1         \* a timestamp that was not taken

PostIds  == 1..MaxWrites
MsgIds   == {PlainMsg} \cup PostIds
Days     == 0..((MaxTime + 1) \div DayTicks)

VARIABLES
    clock,      \* UTC time, in ticks
    tz,         \* offset of the host's local time to UTC, in ticks
    started,    \* main() has run
    redis,      \* redis_db: the keys of the store
    chat,       \* the reposts sent to the chat, by message id
    last,       \* the on_link task that evaluated the link of the latest
                \* update, as it returned; IdleTask after any other step
    marks,      \* the number of updates handled that wrote to the store and
                \* were no admission: reactions, replies, aborted admissions
    tasks       \* the tasks in flight, by slot: handlers that have been
                \* started and have not returned, instances that start

vars == <<clock, tz, started, redis, chat, last, marks, tasks>>

\* ---- the store ------------------------------------------------------------
\*   cnt[d][u]               cnt:{date}:{uid}       [val, exp]
\*   poster[m]               post:{id}:poster       [uid, exp]
\*   interacted[m]           post:{id}:interacted   [members, exp]
\*   posts_last12h           the sorted set         [score, exp]
\*   enforce_after           GRACE_KEY              a timestamp, or None
NoCnt    == [val |-> 0, exp |-> NoTTL]
NoPoster == [uid |-> None, exp |-> NoTTL]
NoSet    == [members |-> {}, exp |-> NoTTL]
NoScore  == -1
NoZSet   == [score |-> [m \in PostIds |-> NoScore], exp |-> NoTTL]

EmptyRedis ==
    [cnt           |-> [d \in Days |-> [u \in Users |-> NoCnt]],
     poster        |-> [m \in PostIds |-> NoPoster],
     interacted    |-> [m \in MsgIds |-> NoSet],
     posts_last12h |-> NoZSet,
     enforce_after |-> None]

Expired(exp, t) == exp # NoTTL /\ exp <= t

\* Redis at time t: the keys whose time to live has run out are gone
Purge(db, t) ==
    [db EXCEPT
       !.cnt = [d \in Days |-> [u \in Users |->
                  IF Expired(db.cnt[d][u].exp, t) THEN NoCnt ELSE db.cnt[d][u]]],
       !.poster = [m \in PostIds |->
                  IF Expired(db.poster[m].exp, t) THEN NoPoster ELSE db.poster[m]],
       !.interacted = [m \in MsgIds |->
                  IF Expired(db.interacted[m].exp, t) THEN NoSet ELSE db.interacted[m]],
       !.posts_last12h =
                  IF Expired(db.posts_last12h.exp, t) THEN NoZSet ELSE db.posts_last12h]

\* ---- the clock --------------------------------------------------------------
utcnow == clock

today == (clock + tz) \div DayTicks

seconds_to_midnight == DayTicks - (clock % DayTicks)

\* ---- tasks ----------------------------------------------------------------
\* the locals of a handler task; pc is the call it is about to make
IdleTask == [pc |-> "idle", handler |-> "none", uid |-> None, msg |-> NoReply,
             now |-> NoTime, post_ids |-> <<>>, seen |-> 0, count |-> 0,
             key |-> 0, deleted |-> FALSE, notice |-> "none", failed |-> "none"]

\* a handler has returned (or raised)
Returned == {"idle", "ignored", "recorded", "admitted",
             "rejected_quota", "rejected_reciprocity", "error"}

\* ---- the world a step acts on -----------------------------------------------
World(db, ch, tk) == [db |-> db, chat |-> ch, tk |-> tk]

Goto(w, pcNew) == [w EXCEPT !.tk.pc = pcNew]

\* ---- sorted-set range query -------------------------------------------------
ZRangeByScore(db, lo, hi) ==
    {m \in PostIds : /\ db.posts_last12h.score[m] # NoScore
                     /\ lo <= db.posts_last12h.score[m]
                     /\ db.posts_last12h.score[m] <= hi}

\* the members of a range in ascending order of score, then of id
RECURSIVE InOrder(_, _)
InOrder(db, S) ==
    IF S = {} THEN <<>>
    ELSE LET m == CHOOSE x \in S : \A y \in S :
                      \/ db.posts_last12h.score[x] < db.posts_last12h.score[y]
                      \/ /\ db.posts_last12h.score[x] = db.posts_last12h.score[y]
                         /\ x <= y
         IN  <<m>> \o InOrder(db, S \ {m})

\* ---- daily_count / bump_daily_count ---------------------------------------
daily_count(db, uid) == db.cnt[today][uid].val

bump_get(w) ==
    [w EXCEPT !.tk.key = today,
              !.tk.count = w.db.cnt[today][w.tk.uid].val + 1,
              !.tk.pc = "bump_set"]

bump_set(w) ==
    [w EXCEPT !.db.cnt[w.tk.key][w.tk.uid] =
                  [val |-> w.tk.count, exp |-> clock + seconds_to_midnight],
              !.tk.pc = "send"]

\* ---- mark_interaction: SADD, then EXPIRE ----------------------------------
\* (variant: a second reaction takes the acknowledgment back)
mark_toggle(w) ==
    [w EXCEPT !.db.interacted[w.tk.msg].members =
                  IF w.tk.uid \in @ THEN @ \ {w.tk.uid} ELSE @ \cup {w.tk.uid},
              !.tk.pc = "expire"]

mark_sadd(w) ==
    [w EXCEPT !.db.interacted[w.tk.msg].members = @ \cup {w.tk.uid},
              !.tk.pc = "expire"]

mark_expire(w) ==
    [w EXCEPT !.db.interacted[w.tk.msg].exp =
                  IF w.db.interacted[w.tk.msg].members = {} THEN @
                  ELSE clock + TTL_12H,
              !.tk.pc = IF w.tk.handler = "on_link" THEN "zadd" ELSE "recorded"]

\* ---- has_fulfilled_rule -----------------------------------------------------
rule_grace(w) ==
    LET now == utcnow
        ea  == IF w.db.enforce_after # None THEN w.db.enforce_after
               ELSE now + TTL_12H
    IN  [w EXCEPT !.tk.now = now,
                  !.tk.pc = IF now < ea THEN "bump_get" ELSE "range"]

rule_range(w) ==
    LET ids == InOrder(w.db, ZRangeByScore(w.db, w.tk.now - TTL_12H, w.tk.now))
    IN  [w EXCEPT !.tk.post_ids = ids,
                  !.tk.pc = IF ids = <<>> THEN "bump_get" ELSE "poster"]

\* the loop goes on with the next post, or ends with True
NextPost(w) ==
    [w EXCEPT !.tk.post_ids = Tail(@),
              !.tk.pc = IF Tail(w.tk.post_ids) = <<>> THEN "bump_get" ELSE "poster"]

rule_poster(w) ==
    IF w.db.poster[Head(w.tk.post_ids)].uid = w.tk.uid
    THEN NextPost(w)
    ELSE Goto(w, "member")

rule_member(w) ==
    IF w.tk.uid \notin w.db.interacted[Head(w.tk.post_ids)].members
    THEN Goto(w, "r_delete")
    ELSE NextPost(w)

\* ---- on_link ----------------------------------------------------------------
\* 1: daily quota
\* (variant: the comparison is >)
link_quota_gt(w) ==
    LET n == daily_count(w.db, w.tk.uid)
    IN  [w EXCEPT !.tk.seen = n,
                  !.tk.pc = IF n > Quota THEN "q_delete" ELSE "grace"]

\* (variant: the counter counts the links sent, not the links admitted)
link_quota_counts_tries(w) ==
    LET n == w.db.cnt[today][w.tk.uid].val + 1
    IN  [w EXCEPT !.db.cnt[today][w.tk.uid] =
                      [val |-> n, exp |-> clock + seconds_to_midnight],
                  !.tk.seen = n,
                  !.tk.pc = IF n > Quota THEN "q_delete" ELSE "grace"]

\* (variant: the count is read and the quota is not enforced)
link_quota_unchecked(w) ==
    [w EXCEPT !.tk.seen = daily_count(w.db, w.tk.uid), !.tk.pc = "grace"]

link_quota(w) ==
    LET n == daily_count(w.db, w.tk.uid)
    IN  [w EXCEPT !.tk.seen = n,
                  !.tk.pc = IF n >= Quota THEN "q_delete" ELSE "grace"]

\* msg.delete() and the notice of a rejection
reject_delete(w) ==
    [w EXCEPT !.tk.deleted = TRUE,
              !.tk.pc = IF w.tk.pc = "q_delete" THEN "q_notice" ELSE "r_notice"]

reject_notice(w) ==
    [w EXCEPT !.tk.notice = IF w.tk.pc = "q_notice" THEN "quota" ELSE "reciprocity",
              !.tk.pc = IF w.tk.pc = "q_notice"
                        THEN "rejected_quota" ELSE "rejected_reciprocity"]

\* 3: accepted, wrap and repost
link_send(w) ==
    [w EXCEPT !.chat = Append(@, [uid |-> w.tk.uid, count |-> w.tk.count,
                                  at |-> clock]),
              !.tk.msg = Len(w.chat) + 1,
              !.tk.pc = "delete"]

link_delete(w) == [w EXCEPT !.tk.deleted = TRUE, !.tk.pc = "setex"]

\* 4: store metadata & interaction sets
link_setex(w) ==
    [w EXCEPT !.db.poster[w.tk.msg] = [uid |-> w.tk.uid, exp |-> clock + TTL_12H],
              !.tk.pc = "sadd"]

link_zadd(w) ==
    [w EXCEPT !.db.posts_last12h.score[w.tk.msg] = utcnow,
              !.tk.pc = "zexpire"]

link_zexpire(w) ==
    [w EXCEPT !.db.posts_last12h.exp = clock + TTL_12H,
              !.tk.pc = "admitted"]

\* ---- ensure_grace_window, call by call --------------------------------------
\* EXISTS; enforce_ts is computed as the call returns
grace_exists(w) ==
    [w EXCEPT !.tk.now = IF w.db.enforce_after # None THEN NoTime ELSE utcnow,
              !.tk.pc = IF w.db.enforce_after # None THEN "up" ELSE "set"]

grace_set(w) ==
    [w EXCEPT !.db.enforce_after = w.tk.now + TTL_12H, !.tk.pc = "up"]

\* ---- one step of a handler task: the call at its pc -------------------------
step(w) ==
    CASE w.tk.pc = "quota"                  -> link_quota(w)
      [] w.tk.pc = "exists"                 -> grace_exists(w)
      [] w.tk.pc = "set"                    -> grace_set(w)
      [] w.tk.pc \in {"q_delete", "r_delete"} -> reject_delete(w)
      [] w.tk.pc \in {"q_notice", "r_notice"} -> reject_notice(w)
      [] w.tk.pc = "grace"                  -> rule_grace(w)
      [] w.tk.pc = "range"                  -> rule_range(w)
      [] w.tk.pc = "poster"                 -> rule_poster(w)
      [] w.tk.pc = "member"                 -> rule_member(w)
      [] w.tk.pc = "bump_get"               -> bump_get(w)
      [] w.tk.pc = "bump_set"               -> bump_set(w)
      [] w.tk.pc = "send"                   -> link_send(w)
      [] w.tk.pc = "delete"                 -> link_delete(w)
      [] w.tk.pc = "setex"                  -> link_setex(w)
      [] w.tk.pc = "sadd"                   -> mark_sadd(w)
      [] w.tk.pc = "expire"                 -> mark_expire(w)
      [] w.tk.pc = "zadd"                   -> link_zadd(w)
      [] w.tk.pc = "zexpire"                -> link_zexpire(w)

\* a handler that runs alone, to its return
RECURSIVE Run(_)
Run(w) == IF w.tk.pc \in Returned THEN w ELSE Run(step(w))

\* ---- a call to Redis that fails --------------------------------------------
\* the calls to redis_db of the quota check and of has_fulfilled_rule
CheckCalls == {"quota", "grace", "range", "poster", "member"}

\* the calls of on_link once the checks have passed, to redis_db and to Telegram
AdmitCalls == {"bump_get", "bump_set", "send", "delete", "setex", "sadd",
               "expire", "zadd", "zexpire"}

\* (variant: has_fulfilled_rule catches the error of a read and returns True)
raise_caught(w) ==
    IF w.tk.pc \in {"grace", "range", "poster", "member"}
    THEN [w EXCEPT !.tk.failed = w.tk.pc, !.tk.pc = "bump_get"]
    ELSE [w EXCEPT !.tk.failed = w.tk.pc, !.tk.pc = "error"]

\* redis raises: no handler catches, the task of the update ends with the error
raise(w) == [w EXCEPT !.tk.failed = w.tk.pc, !.tk.pc = "error"]

\* a handler that runs alone and one call of its checks to redis_db raises:
\* the ways it can return
RECURSIVE Raises(_)
Raises(w) ==
    IF w.tk.pc \notin CheckCalls THEN {}
    ELSE {Run(raise(w))} \cup Raises(step(w))

\* ---- the handlers, from the update that starts them -------------------------
on_reaction(u, m) ==
    [IdleTask EXCEPT !.pc = "sadd", !.handler = "on_reaction", !.uid = u, !.msg = m]

on_reply(u, reply_to) ==
    [IdleTask EXCEPT !.pc = "sadd", !.handler = "on_reply", !.uid = u, !.msg = reply_to]

on_link(u, has_link) ==
    [IdleTask EXCEPT !.pc = IF has_link THEN "quota" ELSE "ignored",
                     !.handler = "on_link", !.uid = u]

\* a message update: the first handler of the group whose filter matches
\* takes it, filters.REPLY before filters.TEXT
dispatch(u, reply_to, has_link) ==
    IF reply_to # NoReply THEN on_reply(u, reply_to) ELSE on_link(u, has_link)

\* ---- the initial state: an empty store, the bot not yet started -----------
Init ==
    /\ clock = 0
    /\ tz \in TzOffsets
    /\ started = FALSE
    /\ redis = EmptyRedis
    /\ chat = <<>>
    /\ last = IdleTask
    /\ marks = 0
    /\ tasks = [s \in Slots |-> IdleTask]

\* ---- one-off: start / reset grace window ----------------------------------
ensure_grace_window(db) ==
    IF db.enforce_after = None
    THEN [db EXCEPT !.enforce_after = utcnow + TTL_12H]
    ELSE db

\* no task is in flight: every slot is free or holds an instance that runs
Quiet == \A s \in Slots : tasks[s].pc \in {"idle", "up"}

main ==
    /\ ~started /\ Quiet
    /\ redis' = ensure_grace_window(redis)
    /\ started' = TRUE
    /\ UNCHANGED <<clock, tz, chat, last, marks, tasks>>

\* ---- time passes ------------------------------------------------------------
\* (a task in flight ends within the tick)
Tick ==
    /\ started /\ last.pc # "error" /\ Quiet
    /\ clock < MaxTime
    /\ clock' = clock + 1
    /\ redis' = Purge(redis, clock + 1)
    /\ last' = IdleTask
    /\ UNCHANGED <<tz, started, chat, marks, tasks>>

\* ---- the updates, handled one after the other -------------------------------
\* the messages of the chat a user can react or reply to
\* (a repost that has left the window for good stands with the plain messages)
Targets == {PlainMsg} \cup {m \in 1..Len(chat) : clock <= chat[m].at + TTL_12H}

\* what is kept of an on_link task that has evaluated a link: the user, what
\* came of it, and whether has_fulfilled_rule took the time
Outcome(tk) == [tk EXCEPT !.now = IF @ = NoTime THEN NoTime ELSE 0,
                          !.msg = NoReply, !.post_ids = <<>>, !.seen = 0,
                          !.count = 0, !.key = 0]

Decided(tk) == tk.handler = "on_link" /\ tk.pc # "ignored"

Handled(w) ==
    /\ last.pc # "error" /\ Quiet
    /\ redis' = w.db
    /\ chat' = w.chat
    /\ last' = IF Decided(w.tk) THEN Outcome(w.tk) ELSE IdleTask
    /\ marks' = IF w.tk.handler = "on_link" /\ w.tk.failed \notin AdmitCalls
                THEN marks ELSE marks + 1
    /\ Len(chat') + marks' <= MaxWrites
    /\ UNCHANGED <<clock, tz, started, tasks>>

\* a reaction or a reply can be taken
MarksLeft == Len(chat) + marks < MaxWrites

ReactionUpdate ==
    \E u \in Users, m \in Targets :
        /\ started /\ MarksLeft
        /\ Handled(Run(World(redis, chat, on_reaction(u, m))))

MessageUpdate ==
    \E u \in Users, reply_to \in Targets \cup {NoReply}, has_link \in BOOLEAN :
        /\ started
        /\ reply_to # NoReply => MarksLeft
        /\ Handled(Run(World(redis, chat, dispatch(u, reply_to, has_link))))

Next == main \/ Tick \/ ReactionUpdate \/ MessageUpdate

Spec == Init /\ [][Next]_vars

\* ---- the same, with a store that can fail during the checks of a link --------
\* a message with a link, and a call of its checks to redis_db fails
MessageUpdateFails ==
    \E u \in Users :
        /\ started
        /\ \E r \in Raises(World(redis, chat, dispatch(u, NoReply, TRUE))) :
               Handled(r)

\* the error of a handler: no error handler is registered, the application
\* logs the exception and goes on with the updates
process_error ==
    /\ last.pc = "error"
    /\ last' = IdleTask
    /\ UNCHANGED <<clock, tz, started, redis, chat, marks, tasks>>

NextFail == Next \/ MessageUpdateFails \/ process_error

SpecFail == Init /\ [][NextFail]_vars

\* ---- the same, with the store losing the grace deadline ----------------------
\* GRACE_KEY is deleted while the bot runs (the store is flushed or restarted)
grace_key_lost ==
    /\ started /\ last.pc # "error" /\ Quiet
    /\ redis.enforce_after # None
    /\ redis' = [redis EXCEPT !.enforce_after = None]
    /\ last' = IdleTask
    /\ UNCHANGED <<clock, tz, started, chat, marks, tasks>>

NextLost == Next \/ grace_key_lost

SpecLost == Init /\ [][NextLost]_vars

\* ---- the same, with a call that fails after the checks of a link -------------
\* a handler that runs alone and one call after its checks raises: the ways
\* it can return
RECURSIVE Aborts(_)
Aborts(w) ==
    IF w.tk.pc \in Returned THEN {}
    ELSE (IF w.tk.pc \in AdmitCalls THEN {Run(raise(w))} ELSE {})
             \cup Aborts(step(w))

MessageUpdateAborts ==
    \E u \in Users :
        /\ started /\ MarksLeft
        /\ \E r \in Aborts(World(redis, chat, dispatch(u, NoReply, TRUE))) :
               Handled(r)

NextAbort == Next \/ MessageUpdateAborts \/ process_error

SpecAbort == Init /\ [][NextAbort]_vars

\* ---- instances of the bot that start, stop and start again --------------------
\* the task of ensure_grace_window in a process that starts
Boot == [IdleTask EXCEPT !.pc = "exists", !.handler = "ensure_grace_window"]

Up(s) == tasks[s].pc = "up"

\* a process starts: main calls ensure_grace_window, which calls EXISTS
main_exists ==
    \E s \in Slots :
        /\ tasks[s] = IdleTask
        /\ LET w == step(World(redis, chat, Boot))
           IN  /\ tasks' = [tasks EXCEPT ![s] = w.tk]
               /\ started' = (started \/ w.tk.pc = "up")
        /\ UNCHANGED <<clock, tz, redis, chat, last, marks>>

\* the key was absent: SET, and the instance runs
main_set ==
    \E s \in Slots :
        /\ tasks[s].pc = "set"
        /\ LET w == step(World(redis, chat, tasks[s]))
           IN  /\ redis' = w.db
               /\ tasks' = [tasks EXCEPT ![s] = [w.tk EXCEPT !.now = NoTime]]
        /\ started' = TRUE
        /\ UNCHANGED <<clock, tz, chat, last, marks>>

\* the process of an instance ends
main_exits ==
    \E s \in Slots :
        /\ Up(s) /\ last.pc # "error"
        /\ tasks' = [tasks EXCEPT ![s] = IdleTask]
        /\ started' = (\E t \in Slots \ {s} : Up(t))
        /\ last' = IdleTask
        /\ UNCHANGED <<clock, tz, redis, chat, marks>>

\* time passes while no instance runs
TickDown ==
    /\ ~started
    /\ clock < MaxTime
    /\ clock' = clock + 1
    /\ redis' = Purge(redis, clock + 1)
    /\ UNCHANGED <<tz, started, chat, last, marks, tasks>>

NextStart == \/ main_exists \/ main_set \/ main_exits
             \/ Tick \/ TickDown \/ ReactionUpdate \/ MessageUpdate

SpecStart == Init /\ [][NextStart]_vars

\* ---- link messages handled concurrently: concurrent_updates(True) ------------
InFlight == Cardinality({s \in Slots : tasks[s] # IdleTask})

\* a message with a link arrives and the task of on_link is created
LinkBegins ==
    \E s \in Slots, u \in Users :
        /\ started
        /\ tasks[s] = IdleTask
        /\ \A t \in Slots : t < s => tasks[t] # IdleTask
        /\ Len(chat) + marks + InFlight < MaxWrites
        /\ tasks' = [tasks EXCEPT ![s] = on_link(u, TRUE)]
        /\ UNCHANGED <<clock, tz, started, redis, chat, last, marks>>

\* a task of on_link makes its next call; a task that returns leaves its slot
LinkStep ==
    \E s \in Slots :
        /\ tasks[s].handler = "on_link"
        /\ LET w == step(World(redis, chat, tasks[s]))
           IN  /\ redis' = w.db
               /\ chat' = w.chat
               /\ tasks' = [tasks EXCEPT ![s] = IF w.tk.pc \in Returned
                                                THEN IdleTask ELSE w.tk]
        /\ UNCHANGED <<clock, tz, started, last, marks>>

NextRace == main \/ Tick \/ LinkBegins \/ LinkStep

SpecRace == Init /\ [][NextRace]_vars

TypeOK ==
    /\ clock \in 0..MaxTime
    /\ tz \in TzOffsets
    /\ redis.enforce_after \in {None} \cup (1..(MaxTime + TTL_12H))
    /\ Len(chat) + marks <= MaxWrites
    /\ last.pc \in Returned
    /\ last.failed \in CheckCalls \cup AdmitCalls \cup {"none"}
    /\ \A s \in Slots : tasks[s].handler \in {"none", "on_link", "ensure_grace_window"}
    /\ marks \in 0..MaxWrites

\* ==== the claims ===============================================================

\* the step handles a message of u with a link: on_link has run for it
LinkOf(u) ==
    /\ started /\ clock' = clock /\ marks' = marks
    /\ <<redis, chat, last>>' # <<redis, chat, last>>
    /\ last'.uid = u

\* the step handles a reaction or a reply of u to m: mark_interaction(m, u)
MarkOf(m, u) ==
    /\ started /\ marks' = marks + 1
    /\ \E tk \in {on_reaction(u, m), on_reply(u, m)} :
          Handled(Run(World(redis, chat, tk)))

Rejections == {"rejected_quota", "rejected_reciprocity"}

\* the checks of on_link, up to the decision
RECURSIVE Checks(_)
Checks(w) ==
    IF w.tk.pc \in {"q_delete", "r_delete", "bump_get"} THEN w ELSE Checks(step(w))

\* what on_link decides for a link of u, with the store db
Decision(db, u) ==
    LET pc == Checks(World(db, chat, on_link(u, TRUE))).tk.pc
    IN  CASE pc = "q_delete" -> "rejected_quota"
          [] pc = "r_delete" -> "rejected_reciprocity"
          [] pc = "bump_get" -> "admitted"

\* the ledger, as the claims speak of it
Window       == ZRangeByScore(redis, clock - TTL_12H, clock)
Author(m)    == chat[m].uid
Acked(m, u)  == u \in redis.interacted[m].members
RuleActive   == redis.enforce_after # None /\ clock >= redis.enforce_after
UnderQuota(u) == daily_count(redis, u) < Quota
AckedAllOthers(u) == \A m \in Window : Author(m) # u => Acked(m, u)

\* the reposts of u's links on the UTC day d
AdmittedOn(u, d) ==
    Cardinality({m \in 1..Len(chat) : chat[m].uid = u /\ chat[m].at \div DayTicks = d})

\* C1: with the updates handled one after the other, every stored daily
\* counter is between 0 and 3, at most 3 links of a user are reposted on a
\* day, and a user with 3 reposts on the day is rejected for quota.
C1_DailyQuota ==
    \A u \in Users :
        /\ \A d \in Days : redis.cnt[d][u].val \in 0..Quota
        /\ \A d \in Days : AdmittedOn(u, d) <= Quota
        /\ (started /\ AdmittedOn(u, clock \div DayTicks) >= Quota)
              => Decision(redis, u) = "rejected_quota"

C3_GraceThenStrict ==
    [][\A u \in Users :
          (LinkOf(u) /\ redis.enforce_after # None /\ UnderQuota(u))
              => /\ clock < redis.enforce_after => last'.pc = "admitted"
                 /\ clock >= redis.enforce_after
                       => (last'.pc = "admitted" <=> AckedAllOthers(u))]_vars

\* C4: a user's own post is never an unmet obligation of that user.  A user
\* who has acknowledged the posts of all others in the window is not rejected
\* for reciprocity, and a user who finds the window empty is admitted.
C4_OwnPostNoObligation ==
    \A u \in Users :
        (started /\ UnderQuota(u))
            => /\ AckedAllOthers(u) => Decision(redis, u) # "rejected_reciprocity"
               /\ Window = {} => Decision(redis, u) = "admitted"

\* C5: a post recorded in the window index at t0 is not returned by the window
\* query at t0 + W or later, and no user is rejected for reciprocity because
\* of it from then on: a rejection is due to a post recorded less than W ago.
C5_WindowExpiry ==
    /\ \A m \in PostIds :
          (redis.posts_last12h.score[m] # NoScore
              /\ clock >= redis.posts_last12h.score[m] + TTL_12H) => m \notin Window
    /\ \A u \in Users :
          (started /\ Decision(redis, u) = "rejected_reciprocity")
              => \E m \in Window :
                    /\ clock < redis.posts_last12h.score[m] + TTL_12H
                    /\ Author(m) # u /\ ~Acked(m, u)

\* C6: the quota check comes first.  A link message of a user whose daily
\* counter is 3 or more is rejected for quota, whatever the ledger and the
\* grace deadline hold, and has_fulfilled_rule is not called for it.
C6_QuotaFirst ==
    [][\A u \in Users :
          (LinkOf(u) /\ daily_count(redis, u) >= Quota)
              => (last'.pc = "rejected_quota" /\ last'.now = NoTime)]_vars

\* a user at quota who has not acknowledged a post of the window, after the
\* grace deadline, was rejected for quota
C6_Witness ==
    /\ last.pc = "rejected_quota"
    /\ RuleActive
    /\ \E m \in Window : Author(m) # last.uid /\ ~Acked(m, last.uid)

\* C7: a link message that is rejected, for quota or for reciprocity, leaves
\* the store (counters, poster records, acknowledgment sets, window index,
\* grace deadline) and the chat as they were.
C7_RejectionFrame ==
    [][\A u \in Users :
          (LinkOf(u) /\ last'.pc \in Rejections)
              => (redis' = redis /\ chat' = chat)]_vars

\* a link was rejected for reciprocity, with posts in the store
C7_Witness ==
    /\ last.pc = "rejected_reciprocity"
    /\ Window # {}

\* C8: mark_interaction is idempotent in membership.  A reaction or a reply of
\* a user who is in the acknowledgment set of the post already (a second call)
\* leaves the set with the same members.
C8_MarkIdempotent ==
    [][\A m \in MsgIds, u \in Users :
          (MarkOf(m, u) /\ u \in redis.interacted[m].members)
              => redis'.interacted[m].members = redis.interacted[m].members]_vars

\* the poster, acknowledged by on_link, has reacted or replied to the own post
\* at a later tick: the set holds the poster alone and lives longer than the
\* poster record
C8_Witness ==
    \E m \in 1..Len(chat) :
        /\ redis.poster[m].uid = Author(m)
        /\ redis.interacted[m].members = {Author(m)}
        /\ redis.interacted[m].exp > redis.poster[m].exp

\* C9: a call to Redis that fails in the quota check or in the reciprocity
\* check ends the evaluation with the error.  The link is not admitted (no
\* counter, no repost, no ledger write) and not rejected (the message is not
\* deleted, no notice is sent).
C9_FailureIsNoDecision ==
    [][\A u \in Users :
          (LinkOf(u) /\ last'.failed \in CheckCalls)
              => /\ last'.pc = "error"
                 /\ redis' = redis /\ chat' = chat
                 /\ ~last'.deleted /\ last'.notice = "none"]_vars

\* the read of the acknowledgment set of a post of the window has failed
C9_Witness ==
    /\ last.pc = "error" /\ last.failed = "member"
    /\ RuleActive /\ Window # {}

\* C10: a reaction or a reply to a message that the ledger does not know, or
\* to a post whose records have expired, changes no counter, poster record,
\* window index entry or grace deadline, and no decision on a later link.
Unknown(m) == m = PlainMsg \/ redis.poster[m] = NoPoster

C10_UnknownPostNoEffect ==
    [][\A m \in MsgIds, u \in Users :
          (MarkOf(m, u) /\ Unknown(m))
              => /\ redis'.cnt = redis.cnt
                 /\ redis'.poster = redis.poster
                 /\ redis'.posts_last12h = redis.posts_last12h
                 /\ redis'.enforce_after = redis.enforce_after
                 /\ \A v \in Users : Decision(redis', v) = Decision(redis, v)]_vars

\* C12: the quota resets at UTC midnight and not before.  While a counter of
\* a user that has reached 3 is stored (its key lives until 00:00 UTC), a link
\* of the user is rejected for quota, and the day of the counter key that the
\* quota check reads is the UTC day.
C12_ResetAtUtcMidnight ==
    \A u \in Users :
        (started /\ \E d \in Days : redis.cnt[d][u].val >= Quota)
            => /\ Decision(redis, u) = "rejected_quota"
               /\ today = clock \div DayTicks

\* C13: a post that the window query returns and whose poster record or
\* acknowledgment set is absent obliges no one: a user is rejected for
\* reciprocity only because of a post of the window that has both records.
Recorded(m) == redis.poster[m] # NoPoster /\ redis.interacted[m] # NoSet

C13_AbsentIsNoObligation ==
    \A u \in Users :
        (started /\ Decision(redis, u) = "rejected_reciprocity")
            => \E m \in Window :
                  /\ Recorded(m)
                  /\ redis.poster[m].uid # u /\ ~Acked(m, u)

\* C14: every post id of the window index posts_last12h has a live poster
\* record, after the writes of an admission and after the keys have expired.
Indexed == {m \in PostIds : redis.posts_last12h.score[m] # NoScore}

C14_IndexedHasPoster ==
    \A m \in Indexed : redis.poster[m] # NoPoster

\* C18: every message with a link is evaluated by on_link, a reply to another
\* message included: it is admitted or rejected, none is left in the chat
\* without the quota check and the reciprocity check.
C18_EveryLinkEvaluated ==
    started =>
        \A u \in Users, reply_to \in Targets \cup {NoReply} :
            Run(World(redis, chat, dispatch(u, reply_to, TRUE))).tk.pc
                \in {"admitted"} \cup Rejections

\* C19: an acknowledgment lasts as long as the post is in the window.  A user
\* who is in the acknowledgment set of a post is still in it in the next state
\* if the window query returns the post there.
C19_AckOutlivesWindow ==
    [][\A m \in PostIds, u \in Users :
          (Acked(m, u) /\ m \in ZRangeByScore(redis', clock' - TTL_12H, clock'))
              => u \in redis'.interacted[m].members]_vars

\* C11: the grace deadline is created once and never reset while present.
\* Whatever instances start, stop and start again, and whatever updates are
\* handled, a step that finds a deadline stored leaves it with its value.
C11_DeadlineKeepsValue ==
    [][redis.enforce_after # None
          => redis'.enforce_after = redis.enforce_after]_vars

\* C15: an admission that fails after the checks have passed leaves no partial
\* admission: if the task of a link ends with the error of a call and the
\* daily counter has been incremented, the repost is recorded in the window
\* index with its poster record.
C15_NoPartialAdmission ==
    [][\A u \in Users :
          (/\ started /\ clock' = clock
           /\ last'.uid = u /\ last'.failed \in AdmitCalls
           /\ redis'.cnt # redis.cnt)
              => /\ Len(chat') = Len(chat) + 1
                 /\ redis'.poster[Len(chat')] # NoPoster
                 /\ redis'.posts_last12h.score[Len(chat')] # NoScore]_vars

\* C16: the known race.  A task of on_link sends its repost whenever the
\* counter that its own quota check read was below 3, whatever the counter
\* and the reposts of the day have become since: two tasks of a user that
\* interleave pass on the same counter value and are both admitted.
C16_QuotaRace ==
    [][\A s \in Slots :
          (tasks[s].pc = "send" /\ tasks'[s] # tasks[s])
              => /\ tasks[s].seen < Quota
                 /\ Len(chat') = Len(chat) + 1]_vars

\* with the host on UTC, two tasks of a user whose quota checks read the same
\* counter value have both sent their repost, and the user has more than 3
\* reposts on the day
C16_Witness ==
    /\ tz = 0
    /\ \E u \in Users :
           /\ \A s \in Slots : /\ tasks[s].handler = "on_link"
                                /\ tasks[s].uid = u
                                /\ tasks[s].seen = Quota - 1
                                /\ tasks[s].pc \in AdmitCalls \ {"bump_get", "bump_set", "send"}
           /\ AdmittedOn(u, clock \div DayTicks) > Quota

\* C17: for every user and day the stored counter is the number of the user's
\* links admitted that day, and the count shown in a repost is the ordinal of
\* the admission, also when the evaluations interleave.
Ordinal(m) ==
    Cardinality({k \in 1..m : /\ chat[k].uid = chat[m].uid
                              /\ chat[k].at \div DayTicks = chat[m].at \div DayTicks})

C17_CounterIsCount ==
    (tz = 0 /\ Quiet)
        => /\ \A u \in Users :
                  redis.cnt[today][u].val = AdmittedOn(u, clock \div DayTicks)
           /\ \A m \in 1..Len(chat) : chat[m].count = Ordinal(m)

\* C20: the reciprocity check is bypassed only before a stored deadline.  A
\* link of a user who has not acknowledged a post of another user in the
\* window is admitted only if a deadline is stored and now is before it, and
\* an evaluation that finds no deadline stored stores now + TTL_12H.
C20_NoDeadlineNoBypass ==
    [][\A u \in Users :
          (LinkOf(u) /\ UnderQuota(u))
              => /\ (last'.pc = "admitted" /\ ~AckedAllOthers(u))
                       => (redis.enforce_after # None /\ clock < redis.enforce_after)
                 /\ redis.enforce_after = None
                       => redis'.enforce_after = clock + TTL_12H]_vars

====
